---- MODULE Spec2Model ----
(***************************************************************************)
(* bun-sqlite-watcher: capture triggers append rows to the change log      *)
(* _sqlite_watcher_changes, a periodic timer runs SQLiteWatcher.           *)
(* checkChanges, which reads a batch, deletes it and dispatches each row   *)
(* to the TableWatcher of its table.                                       *)
(***************************************************************************)
EXTENDS Integers, Sequences, FiniteSets, TLC

\* ---------------------------------------------------------------- bounds
MaxChanges == 2            \* changes captured under Spec
MaxRetentionChanges == 4   \* changes captured under SpecRetention
MaxClock == 2              \* seconds that pass under SpecRetention
MaxTicks == 2              \* checkChanges invocations in flight at once
MaxListeners == 2          \* listeners registered on one TableWatcher
MaxStorageFailures == 1    \* failures the engine injects
MaxLifecycleChanges == 2   \* changes captured under SpecLifecycle
MaxClockChanges == 3       \* changes captured under SpecClock
MaxLiveChanges == 2        \* changes captured under SpecLive

\* ------------------------------------------------- configuration (scaled)
MaxChangesPerBatch == 2
RetentionSeconds == 1
BufferSize == 3

Tables == {"users"}
\* A name that is no table of the database.
MissingTables == {"ghost"}
Operations == {"INSERT", "UPDATE", "DELETE"}
Wildcard == "*"
Events == Operations \cup {Wildcard}
\* Subscriber callbacks of the application: "slow" returns a promise that
\* settles later (resolved or rejected), "bad" throws synchronously.
Callbacks == {"slow", "bad"}
Handlers == {"h1", "h2"}
\* Predicates handed to TableWatcher.filter; "none" is options.filter unset.
Predicates == {"insertsOnly", "rejectAll"}
TickIds == 1..MaxTicks
\* The statement of checkChanges that the engine fails, if any.
StorageFailures == {"none", "select", "delete"}

VARIABLES
    clock,          \* unixepoch()
    initialized,    \* SQLiteWatcher.initialized: change log table and cleanup trigger exist
    nextId,         \* AUTOINCREMENT sequence of _sqlite_watcher_changes
    changeLog,      \* rows of _sqlite_watcher_changes
    triggers,       \* tables whose three capture triggers are installed
    watchers,       \* SQLiteWatcher.watchers: Map<string, TableWatcher>
    intervalId,     \* SQLiteWatcher.intervalId: "null" or "timer"
    errorHandlers,  \* SQLiteWatcher.errorHandlers
    ticks,          \* checkChanges invocations in flight
    running,        \* callback invocations whose promise is still pending
    fired,          \* history: callback invocations in the order they started
    captured,       \* history: the rows appended (id, table, operation)
    evicted,        \* history: ids removed by the cleanup trigger
    handled,        \* history: ids passed to TableWatcher.handleChange
    rejected,       \* history: ids the filter of a TableWatcher rejected
    skipped,        \* history: ids passed over, their table having no TableWatcher
    failed,         \* history: changes whose dispatch ended in the catch block
    raised,         \* history: errors caught by checkChanges, by kind
    reported,       \* history: errors each onError handler received
    storageFailures,\* history: statements of checkChanges that failed
    lastFilter,     \* history: the predicate of the last filter() call per table
    dbOpen,         \* SQLiteWatcher.db: the handle is open
    watcherObjects, \* the change log table and the cleanup trigger, as far as they exist
    timers,         \* intervals set by setInterval and not cleared
    rewatched,      \* history: tables watch() was called for while watched
    watchErrors,    \* history: tables watch() threw 'does not exist' for
    lastCleanup,    \* history: the argument of the cleanup() that closed the handle
    inFlightAtCleanup, \* history: changes waiting in a batch in flight at cleanup()
    mutation,       \* a statement with its row images, applied to a watched table
    payloadRow,     \* the row the capture trigger wrote for the mutation
    delivered       \* the DBChange checkChanges built from that row

vars == <<clock, initialized, nextId, changeLog, triggers, watchers, intervalId,
          errorHandlers, ticks, running, fired, captured, evicted, handled,
          rejected, skipped, failed, raised, reported, storageFailures, lastFilter,
          dbOpen, watcherObjects, timers, rewatched, watchErrors, lastCleanup,
          inFlightAtCleanup, mutation, payloadRow, delivered>>

lifeVars == <<dbOpen, watcherObjects, rewatched, watchErrors, lastCleanup, inFlightAtCleanup>>
payloadVars == <<mutation, payloadRow, delivered>>

\* ------------------------------------------------------------ change log

Max(S) == CHOOSE x \in S : \A y \in S : y <= x

\* The row the scalar subquery of the cleanup trigger selects:
\* SELECT id ... ORDER BY id DESC LIMIT 1 OFFSET bufferSize (NULL when absent).
OffsetRowIds(log, offset) ==
    {r.id : r \in {x \in log : Cardinality({y \in log : y.id > x.id}) = offset}}

\* The cleanup trigger comparing id < pivot: the pivot row itself survives.
CleanupTriggerKeepsPivot(log, now) ==
    LET pivot == OffsetRowIds(log, BufferSize)
    IN {r \in log : ~(r.timestamp < now - RetentionSeconds
                      \/ (pivot # {} /\ r.id < Max(pivot)))}

\* The cleanup trigger without its age condition.
CleanupTriggerCountOnly(log, now) ==
    LET pivot == OffsetRowIds(log, BufferSize)
    IN {r \in log : ~(pivot # {} /\ r.id <= Max(pivot))}

\* cleanup_old_watcher_changes, AFTER INSERT ON _sqlite_watcher_changes.
CleanupTrigger(log, now) ==
    LET pivot == OffsetRowIds(log, BufferSize)
    IN {r \in log : ~(r.timestamp < now - RetentionSeconds
                      \/ (pivot # {} /\ r.id <= Max(pivot)))}

\* The capture trigger of a table: INSERT INTO _sqlite_watcher_changes, which
\* fires the cleanup trigger.
CaptureTrigger(log, id, table, op, now) ==
    CleanupTrigger(log \cup {[id |-> id, table_name |-> table, operation |-> op,
                              timestamp |-> now]}, now)

\* ORDER BY timestamp ASC, rows of equal timestamp in rowid order (the scan of
\* idx_watcher_changes_timestamp).
Before(a, b) == a.timestamp < b.timestamp \/ (a.timestamp = b.timestamp /\ a.id < b.id)

RECURSIVE OrderByTimestamp(_)
OrderByTimestamp(S) ==
    IF S = {} THEN <<>>
    ELSE LET first == CHOOSE r \in S : \A o \in S \ {r} : Before(r, o)
         IN <<first>> \o OrderByTimestamp(S \ {first})

\* SELECT * FROM _sqlite_watcher_changes ORDER BY timestamp ASC LIMIT ?
SelectChanges(log, limit) ==
    LET all == OrderByTimestamp(log)
    IN SubSeq(all, 1, IF Len(all) < limit THEN Len(all) ELSE limit)

\* DELETE FROM _sqlite_watcher_changes WHERE id <= ?
DeleteUpTo(log, lastId) == {r \in log : r.id > lastId}

\* -------------------------------------------------- TableWatcher, emitter

\* new TableWatcher(table, options): an EventEmitter without listeners and the
\* options without a filter.
NewTableWatcher == [events |-> [e \in Events |-> <<>>], filter |-> "none"]

Range(seq) == {seq[n] : n \in DOMAIN seq}

ListenerCount(w) == Len(w.events["INSERT"]) + Len(w.events["UPDATE"])
                    + Len(w.events["DELETE"]) + Len(w.events[Wildcard])

\* EventEmitter.on: the listeners of an event are a Set in insertion order.
EmitterOn(w, event, cb) ==
    IF cb \in Range(w.events[event]) THEN w
    ELSE [w EXCEPT !.events[event] = Append(@, cb)]

\* filter() that keeps a predicate already set.
SetFilterKeepsFirst(w, predicate) ==
    IF w.filter = "none" THEN [w EXCEPT !.filter = predicate] ELSE w

\* TableWatcher.filter: this.options.filter = predicate.
SetFilter(w, predicate) == [w EXCEPT !.filter = predicate]

\* The predicate applied to a change.
Accepts(predicate, change) ==
    CASE predicate = "none" -> TRUE
      [] predicate = "insertsOnly" -> change.operation = "INSERT"
      [] predicate = "rejectAll" -> FALSE

Invocation(change, event, cb) == [id |-> change.id, event |-> event, callback |-> cb]

\* Array.from(callbacks).map(callback => callback(...args)): the callbacks are
\* called in order; one that throws ends the map, the later ones are not called.
RECURSIVE InvokeAll(_, _, _)
InvokeAll(cbs, change, event) ==
    IF cbs = <<>> THEN [started |-> <<>>, pending |-> {}, threw |-> FALSE]
    ELSE LET inv == Invocation(change, event, Head(cbs))
         IN IF Head(cbs) = "bad"
            THEN [started |-> <<inv>>, pending |-> {}, threw |-> TRUE]
            ELSE LET rest == InvokeAll(Tail(cbs), change, event)
                 IN [started |-> <<inv>> \o rest.started,
                     pending |-> {inv} \cup rest.pending,
                     threw |-> rest.threw]

\* ---------------------------------------------------------- checkChanges

IdleTick == [pc |-> "idle", batch |-> <<>>, i |-> 0, await |-> {}, orphan |-> FALSE]

\* What one run of checkChanges between two suspension points leaves behind:
\* the tick (idle when it returned), the histories, and the error it caught.
Outcome(tick, acc, error) == [tick |-> tick, acc |-> acc, error |-> error]

Started(acc, r) ==
    [acc EXCEPT !.fired = @ \o r.started, !.running = @ \cup r.pending]

\* A callback of batch[i] threw or rejected: the await in the for loop throws,
\* the loop is left and the catch block runs.
Thrown(batch, i, acc) ==
    Outcome(IdleTick,
            [acc EXCEPT !.failed = @ \cup {[id |-> batch[i].id,
                                            later |-> {batch[j].id : j \in (i + 1)..Len(batch)}]}],
            "callback")

RECURSIVE Dispatch(_, _, _)

\* EventEmitter.emit, second half: the wildcard listeners. The listeners are
\* looked up when the first half has completed; removeAllListeners() of an
\* unwatched TableWatcher (orphan) leaves none.
EmitWildcard(batch, i, acc, orphan) ==
    LET change == batch[i]
        cbs == IF orphan THEN <<>> ELSE watchers[change.table_name].events[Wildcard]
        r == InvokeAll(cbs, change, Wildcard)
    IN IF r.threw THEN Thrown(batch, i, Started(acc, r))
       ELSE IF r.pending # {}
       THEN Outcome([pc |-> "any", batch |-> batch, i |-> i, await |-> r.pending,
                     orphan |-> FALSE], Started(acc, r), "none")
       ELSE Dispatch(batch, i + 1, Started(acc, r))

\* EventEmitter.emit, first half: the listeners of the change's operation.
EmitOperation(batch, i, acc) ==
    LET change == batch[i]
        r == InvokeAll(watchers[change.table_name].events[change.operation],
                       change, change.operation)
    IN IF r.threw THEN Thrown(batch, i, Started(acc, r))
       ELSE IF r.pending # {}
       THEN Outcome([pc |-> "op", batch |-> batch, i |-> i, await |-> r.pending,
                     orphan |-> FALSE], Started(acc, r), "none")
       ELSE EmitWildcard(batch, i, Started(acc, r), FALSE)

\* TableWatcher.handleChange: the filter, then emit.
HandleChange(batch, i, acc) ==
    IF ~Accepts(watchers[batch[i].table_name].filter, batch[i])
    THEN Dispatch(batch, i + 1, [acc EXCEPT !.rejected = @ \cup {batch[i].id}])
    ELSE EmitOperation(batch, i, acc)

\* for (const change of changes): a change whose table has no TableWatcher is
\* passed over, the others go to handleChange.
Dispatch(batch, i, acc) ==
    IF i > Len(batch) THEN Outcome(IdleTick, acc, "none")
    ELSE IF batch[i].table_name \notin DOMAIN watchers
    THEN Dispatch(batch, i + 1, [acc EXCEPT !.skipped = @ \cup {batch[i].id}])
    ELSE HandleChange(batch, i, [acc EXCEPT !.handled = @ \cup {batch[i].id}])

Acc == [fired |-> fired, running |-> running, handled |-> handled,
        rejected |-> rejected, skipped |-> skipped, failed |-> failed]

\* A catch block that also clears the timer.
CatchErrorStopsTimer(error) ==
    /\ intervalId' = IF error = "none" THEN intervalId ELSE "null"
    /\ IF error = "none" THEN UNCHANGED <<raised, reported>>
       ELSE /\ raised' = [raised EXCEPT ![error] = @ + 1]
            /\ reported' = [h \in Handlers |->
                               IF h \in errorHandlers THEN reported[h] + 1 ELSE reported[h]]

\* catch (error) { this.errorHandlers.forEach(handler => handler(error)) }:
\* every handler is called, the timer is left alone.
CatchError(error) ==
    /\ intervalId' = intervalId
    /\ IF error = "none" THEN UNCHANGED <<raised, reported>>
       ELSE /\ raised' = [raised EXCEPT ![error] = @ + 1]
            /\ reported' = [h \in Handlers |->
                               IF h \in errorHandlers THEN reported[h] + 1 ELSE reported[h]]

\* The state after checkChanges ran to its next suspension point in slot k.
Resume(k, out) ==
    /\ ticks' = [ticks EXCEPT ![k] = out.tick]
    /\ fired' = out.acc.fired
    /\ running' = out.acc.running
    /\ handled' = out.acc.handled
    /\ rejected' = out.acc.rejected
    /\ skipped' = out.acc.skipped
    /\ failed' = out.acc.failed
    /\ CatchError(out.error)

FreeSlot == CHOOSE k \in TickIds : ticks[k].pc = "idle" /\ \A j \in TickIds : ticks[j].pc = "idle" => k <= j

\* A DELETE that removes the batch and then reports its failure.
LogAfterDeleteApplied(log, changes, failure) ==
    IF failure # "select" /\ changes # <<>>
    THEN DeleteUpTo(log, changes[Len(changes)].id)
    ELSE log

\* The change log after the statements of one checkChanges: the DELETE of the
\* batch, unless the SELECT or the DELETE threw.
LogAfter(log, changes, failure) ==
    IF failure = "none" /\ changes # <<>>
    THEN DeleteUpTo(log, changes[Len(changes)].id)
    ELSE log

Failure(statement) == [statement |-> statement, pending |-> {r.id : r \in changeLog}]

\* The timer callback: checkChanges from its start to its first suspension.
\* The SELECT fails when the change log table does not exist, and the SELECT
\* or the DELETE can fail in the engine (SQLITE_BUSY, I/O error): failure.
CheckChanges(failure) ==
    /\ timers > 0
    /\ \E k \in TickIds : ticks[k].pc = "idle"
    /\ LET k == FreeSlot
           changes == SelectChanges(changeLog, MaxChangesPerBatch)
       IN \/ /\ failure = "select" \/ (failure = "none" /\ ~initialized)
             /\ Len(storageFailures) < MaxStorageFailures
             /\ storageFailures' = Append(storageFailures, Failure("select"))
             /\ changeLog' = LogAfter(changeLog, <<>>, "select")
             /\ Resume(k, Outcome(IdleTick, Acc, "storage"))
          \/ /\ failure = "delete"
             /\ initialized
             /\ changes # <<>>
             /\ Len(storageFailures) < MaxStorageFailures
             /\ storageFailures' = Append(storageFailures, Failure("delete"))
             /\ changeLog' = LogAfter(changeLog, changes, "delete")
             /\ Resume(k, Outcome(IdleTick, Acc, "storage"))
          \/ /\ failure = "none"
             /\ initialized
             /\ changes = <<>>
             /\ Resume(k, Outcome(IdleTick, Acc, "none"))
             /\ UNCHANGED <<changeLog, storageFailures>>
          \/ /\ failure = "none"
             /\ initialized
             /\ changes # <<>>
             /\ changeLog' = LogAfter(changeLog, changes, "none")
             /\ Resume(k, Dispatch(changes, 1, Acc))
             /\ UNCHANGED storageFailures
    /\ UNCHANGED <<clock, initialized, nextId, triggers, watchers, errorHandlers,
                   captured, evicted, lastFilter, timers>>
    /\ UNCHANGED <<lifeVars, payloadVars>>

\* The ticks awaiting invocation inv.
Awaiting(inv) == {k \in TickIds : inv \in ticks[k].await}

\* The promise of a callback resolves; Promise.all resolves with the last one
\* and checkChanges resumes.
CallbackResolve ==
    /\ \E inv \in running :
         LET acc == [Acc EXCEPT !.running = @ \ {inv}]
         IN IF Awaiting(inv) = {}
            THEN /\ running' = running \ {inv}
                 /\ UNCHANGED <<ticks, fired, handled, rejected, skipped, failed,
                                raised, reported, intervalId>>
            ELSE LET k == CHOOSE j \in Awaiting(inv) : TRUE
                     t == ticks[k]
                 IN IF t.await # {inv}
                    THEN Resume(k, Outcome([t EXCEPT !.await = @ \ {inv}], acc, "none"))
                    ELSE IF t.pc = "op"
                    THEN Resume(k, EmitWildcard(t.batch, t.i, acc, t.orphan))
                    ELSE Resume(k, Dispatch(t.batch, t.i + 1, acc))
    /\ UNCHANGED <<clock, initialized, nextId, changeLog, triggers, watchers,
                   errorHandlers, captured, evicted, storageFailures, lastFilter, timers>>
    /\ UNCHANGED <<lifeVars, payloadVars>>

\* The promise of a callback rejects; Promise.all rejects at once and the
\* catch block of checkChanges runs. Callbacks still pending keep running.
CallbackReject ==
    /\ \E inv \in running :
         LET acc == [Acc EXCEPT !.running = @ \ {inv}]
         IN IF Awaiting(inv) = {}
            THEN /\ running' = running \ {inv}
                 /\ UNCHANGED <<ticks, fired, handled, rejected, skipped, failed,
                                raised, reported, intervalId>>
            ELSE LET k == CHOOSE j \in Awaiting(inv) : TRUE
                 IN Resume(k, Thrown(ticks[k].batch, ticks[k].i, acc))
    /\ UNCHANGED <<clock, initialized, nextId, changeLog, triggers, watchers,
                   errorHandlers, captured, evicted, storageFailures, lastFilter, timers>>
    /\ UNCHANGED <<lifeVars, payloadVars>>

\* ------------------------------------------------------- SQLiteWatcher API

tickVars == <<ticks, running, fired, handled, rejected, skipped, failed, raised,
              reported, storageFailures>>

\* removeTriggers that drops nothing.
RemoveTriggersKeeps(trg, table) == trg

\* removeTriggers: DROP TRIGGER IF EXISTS for the three capture triggers.
RemoveTriggers(trg, table) == trg \ {table}

\* createTriggers, first part: capture triggers found for the table are removed.
DropExisting(trg, table) == IF table \in trg THEN RemoveTriggers(trg, table) ELSE trg

\* A check that finds every table.
TableExistsAlways(table) == TRUE

\* createTriggers, second part: PRAGMA table_info(table) returns columns.
TableExists(table) == table \in Tables

\* createTriggers that installs nothing.
CreateTriggersNone(trg, table) == DropExisting(trg, table)

\* createTriggers for an existing table: after the removal of the triggers
\* found, the three capture triggers of the table are installed.
CreateTriggers(trg, table) == DropExisting(trg, table) \cup {table}

\* setupDatabase: CREATE TABLE / CREATE TRIGGER IF NOT EXISTS.
SetupDatabase(objects) == objects \cup {"changes_table", "cleanup_trigger"}

\* A cleanup that drops the watcher objects whatever its argument.
SqliteCleanupAlways(objects, removeTable) == {}

\* cleanup(db), called by SQLiteWatcher.cleanup when removeTable is set:
\* DROP TABLE, DROP TRIGGER IF EXISTS.
SqliteCleanup(objects, removeTable) == IF removeTable THEN {} ELSE objects

\* watch() that replaces the TableWatcher of a watched table.
WatchReplaces(table) ==
    /\ dbOpen
    /\ initialized' = TRUE
    /\ watcherObjects' = IF initialized THEN watcherObjects ELSE SetupDatabase(watcherObjects)
    /\ rewatched' = IF table \in DOMAIN watchers THEN rewatched \cup {table} ELSE rewatched
    /\ triggers' = CreateTriggers(triggers, table)
    /\ watchers' = [t \in DOMAIN watchers \cup {table} |->
                       IF t = table THEN NewTableWatcher ELSE watchers[t]]
    /\ lastFilter' = [lastFilter EXCEPT ![table] = "none"]
    /\ UNCHANGED <<clock, nextId, changeLog, intervalId, errorHandlers, captured, evicted,
                   timers, dbOpen, watchErrors, lastCleanup, inFlightAtCleanup>>
    /\ UNCHANGED tickVars
    /\ UNCHANGED payloadVars

\* watch(table): initialize(), then triggers and a TableWatcher unless the
\* table has one. On a closed handle initialize() throws and nothing changes.
\* createTriggers throws for a table that does not exist, before any trigger
\* is created and before the registry is touched.
Watch(table) ==
    /\ dbOpen
    /\ initialized' = TRUE
    /\ watcherObjects' = IF initialized THEN watcherObjects ELSE SetupDatabase(watcherObjects)
    /\ IF table \in DOMAIN watchers
       THEN /\ rewatched' = rewatched \cup {table}
            /\ UNCHANGED <<triggers, watchers, lastFilter, watchErrors>>
       ELSE IF ~TableExists(table)
       THEN /\ watchErrors' = watchErrors \cup {table}
            /\ triggers' = DropExisting(triggers, table)
            /\ UNCHANGED <<watchers, lastFilter, rewatched>>
       ELSE /\ triggers' = CreateTriggers(triggers, table)
            /\ watchers' = [t \in DOMAIN watchers \cup {table} |->
                               IF t = table THEN NewTableWatcher ELSE watchers[t]]
            /\ lastFilter' = [lastFilter EXCEPT ![table] = "none"]
            /\ UNCHANGED <<rewatched, watchErrors>>
    /\ UNCHANGED <<clock, nextId, changeLog, intervalId, errorHandlers, captured, evicted,
                   timers, dbOpen, lastCleanup, inFlightAtCleanup>>
    /\ UNCHANGED tickVars
    /\ UNCHANGED payloadVars

\* A tick suspended in the first half of emit for a change of the table holds
\* the TableWatcher whose listeners unwatch removes.
OrphanTicks(table) ==
    [k \in TickIds |->
        IF ticks[k].pc = "op" /\ ticks[k].batch[ticks[k].i].table_name = table
        THEN [ticks[k] EXCEPT !.orphan = TRUE] ELSE ticks[k]]

\* unwatch(table): watcher.cleanup(), removeTriggers, watchers.delete.
Unwatch(table) ==
    /\ table \in DOMAIN watchers
    /\ triggers' = RemoveTriggers(triggers, table)
    /\ watchers' = [t \in DOMAIN watchers \ {table} |-> watchers[t]]
    /\ ticks' = OrphanTicks(table)
    /\ UNCHANGED <<clock, initialized, nextId, changeLog, intervalId, errorHandlers,
                   captured, evicted, running, fired, handled, rejected, skipped,
                   failed, raised, reported, storageFailures, lastFilter>>
    /\ UNCHANGED <<lifeVars, payloadVars, timers>>

\* watch(table).onInsert / onUpdate / onDelete / onAny (callback).
On(table, event, cb) ==
    /\ table \in DOMAIN watchers
    /\ ListenerCount(watchers[table]) < MaxListeners
    /\ watchers' = [watchers EXCEPT ![table] = EmitterOn(@, event, cb)]
    /\ UNCHANGED <<clock, initialized, nextId, changeLog, triggers, intervalId,
                   errorHandlers, captured, evicted, lastFilter>>
    /\ UNCHANGED tickVars
    /\ UNCHANGED <<lifeVars, payloadVars, timers>>

\* watch(table).filter(predicate).
Filter(table, predicate) ==
    /\ table \in DOMAIN watchers
    /\ watchers' = [watchers EXCEPT ![table] = SetFilter(@, predicate)]
    /\ lastFilter' = [lastFilter EXCEPT ![table] = predicate]
    /\ UNCHANGED <<clock, initialized, nextId, changeLog, triggers, intervalId,
                   errorHandlers, captured, evicted>>
    /\ UNCHANGED tickVars
    /\ UNCHANGED <<lifeVars, payloadVars, timers>>

\* start() that sets an interval whenever it is called.
StartAlways ==
    /\ intervalId' = "timer"
    /\ timers' = timers + 1
    /\ UNCHANGED <<clock, initialized, nextId, changeLog, triggers, watchers,
                   errorHandlers, captured, evicted, lastFilter>>
    /\ UNCHANGED tickVars
    /\ UNCHANGED <<lifeVars, payloadVars>>

\* start(): setInterval unless a timer is set.
Start ==
    /\ intervalId' = IF intervalId = "null" THEN "timer" ELSE intervalId
    /\ timers' = IF intervalId = "null" THEN timers + 1 ELSE timers
    /\ UNCHANGED <<clock, initialized, nextId, changeLog, triggers, watchers,
                   errorHandlers, captured, evicted, lastFilter>>
    /\ UNCHANGED tickVars
    /\ UNCHANGED <<lifeVars, payloadVars>>

\* stop(): clearInterval of the timer held, if any.
Stop ==
    /\ intervalId' = "null"
    /\ timers' = IF intervalId = "null" THEN timers ELSE timers - 1
    /\ UNCHANGED <<clock, initialized, nextId, changeLog, triggers, watchers,
                   errorHandlers, captured, evicted, lastFilter>>
    /\ UNCHANGED tickVars
    /\ UNCHANGED <<lifeVars, payloadVars>>

RECURSIVE RemoveAllTriggers(_, _)
\* for (const [table, watcher] of this.watchers.entries()) removeTriggers(db, table)
RemoveAllTriggers(trg, tables) ==
    IF tables = {} THEN trg
    ELSE LET table == CHOOSE t \in tables : TRUE
         IN RemoveAllTriggers(RemoveTriggers(trg, table), tables \ {table})

\* The changes of watched tables waiting in the batches of the ticks in flight.
WaitingInFlight ==
    UNION {{ticks[k].batch[j].id : j \in {n \in (ticks[k].i + 1)..Len(ticks[k].batch) :
                                           ticks[k].batch[n].table_name \in DOMAIN watchers}}
           : k \in {n \in TickIds : ticks[n].pc # "idle"}}

\* cleanup(removeTable): stop(), watcher.cleanup() and removeTriggers for every
\* watched table, watchers.clear(), cleanup(db) when removeTable is set,
\* db.close(), initialized = false; all in one synchronous call. On a closed
\* handle the registry is empty, and cleanup(db) throws when it is reached.
Cleanup(removeTable) ==
    /\ intervalId' = "null"
    /\ timers' = IF intervalId = "null" THEN timers ELSE timers - 1
    /\ ticks' = [k \in TickIds |->
                   IF ticks[k].pc = "op"
                      /\ ticks[k].batch[ticks[k].i].table_name \in DOMAIN watchers
                   THEN [ticks[k] EXCEPT !.orphan = TRUE] ELSE ticks[k]]
    /\ triggers' = IF dbOpen THEN RemoveAllTriggers(triggers, DOMAIN watchers) ELSE triggers
    /\ watchers' = <<>>
    /\ IF dbOpen
       THEN /\ watcherObjects' = SqliteCleanup(watcherObjects, removeTable)
            /\ changeLog' = IF "changes_table" \in watcherObjects' THEN changeLog ELSE {}
            /\ lastCleanup' = IF removeTable THEN "true" ELSE "false"
            /\ inFlightAtCleanup' = inFlightAtCleanup \cup WaitingInFlight
       ELSE UNCHANGED <<watcherObjects, changeLog, lastCleanup, inFlightAtCleanup>>
    /\ dbOpen' = FALSE
    /\ initialized' = FALSE
    /\ UNCHANGED <<clock, nextId, errorHandlers, captured, evicted, lastFilter,
                   running, fired, handled, rejected, skipped, failed, raised, reported,
                   storageFailures, rewatched, watchErrors>>
    /\ UNCHANGED payloadVars

\* onError(handler).
OnError(handler) ==
    /\ errorHandlers' = errorHandlers \cup {handler}
    /\ UNCHANGED <<clock, initialized, nextId, changeLog, triggers, watchers,
                   intervalId, captured, evicted, lastFilter>>
    /\ UNCHANGED tickVars
    /\ UNCHANGED <<lifeVars, payloadVars, timers>>

\* ------------------------------------------------------------ environment

\* A process runs INSERT, UPDATE or DELETE on a table whose capture triggers
\* are installed: the trigger appends the change and the cleanup trigger runs.
\* Without the triggers the statement leaves the change log alone.
Mutate(table, op) ==
    /\ table \in triggers
    /\ LET row == [id |-> nextId, table_name |-> table, operation |-> op,
                   timestamp |-> clock]
           log == CaptureTrigger(changeLog, nextId, table, op, clock)
       IN /\ changeLog' = log
          /\ captured' = captured \cup {[id |-> nextId, table_name |-> table,
                                         operation |-> op]}
          /\ evicted' = evicted \cup {r.id : r \in (changeLog \cup {row}) \ log}
    /\ nextId' = nextId + 1
    /\ UNCHANGED <<clock, initialized, triggers, watchers, intervalId, errorHandlers,
                   lastFilter>>
    /\ UNCHANGED tickVars
    /\ UNCHANGED <<lifeVars, payloadVars, timers>>

\* A second passes.
AdvanceClock ==
    /\ clock < MaxClock
    /\ clock' = clock + 1
    /\ UNCHANGED <<initialized, nextId, changeLog, triggers, watchers, intervalId,
                   errorHandlers, captured, evicted, lastFilter>>
    /\ UNCHANGED tickVars
    /\ UNCHANGED <<lifeVars, payloadVars, timers>>

\* The wall clock unixepoch() reads is set back (a clock adjustment).
ClockStepsBack ==
    /\ clock > 0
    /\ \E now \in 0..(clock - 1) : clock' = now
    /\ UNCHANGED <<initialized, nextId, changeLog, triggers, watchers, intervalId,
                   errorHandlers, captured, evicted, lastFilter>>
    /\ UNCHANGED tickVars
    /\ UNCHANGED <<lifeVars, payloadVars, timers>>

\* ---------------------------------------------------------------- payload

\* Rows of a watched table: the rowid, which the INTEGER PRIMARY KEY id
\* aliases, and the columns the capture triggers name.
MaxRowId == 2
RowIds == 1..MaxRowId
Titles == {"a", "b"}
Completed == {0, 1}
Stamps == {0, 1}
Images == [rowid : RowIds, title : Titles, completed : Completed,
           created_at : {0}, updated_at : Stamps]

NoStatement == [op |-> "none"]
NoRow == [operation |-> "none"]
NoChange == [operation |-> "none"]

\* json_object(k1, v1, k2, v2, ...): the text of a JSON object, its members in
\* argument order.
JsonObject(members) == members

\* JSON.parse of the text of an object: a value per key, the last member of a
\* key winning.
JsonParse(text) ==
    LET keys == {text[n][1] : n \in DOMAIN text}
        last(k) == Max({n \in DOMAIN text : text[n][1] = k})
    IN [k \in keys |-> text[last(k)][2]]

\* _sqlite_watcher_<table>_insert, AFTER INSERT.
InsertTrigger(table, new, now) ==
    [table_name |-> table, operation |-> "INSERT", row_id |-> new.rowid,
     changed_data |-> JsonObject(<<
         <<"id", new.rowid>>, <<"title", new.title>>,
         <<"completed", new.completed>>, <<"created_at", new.created_at>>,
         <<"updated_at", new.updated_at>> >>),
     timestamp |-> now]

\* _sqlite_watcher_<table>_update, AFTER UPDATE: row_id and 'id' are old.rowid,
\* the other members are taken from new.
UpdateTrigger(table, old, new, now) ==
    [table_name |-> table, operation |-> "UPDATE", row_id |-> old.rowid,
     changed_data |-> JsonObject(<<
         <<"id", old.rowid>>, <<"title", new.title>>,
         <<"completed", new.completed>>, <<"created_at", new.created_at>>,
         <<"updated_at", new.updated_at>> >>),
     timestamp |-> now]

\* _sqlite_watcher_<table>_delete, AFTER DELETE.
DeleteTrigger(table, old, now) ==
    [table_name |-> table, operation |-> "DELETE", row_id |-> old.rowid,
     changed_data |-> JsonObject(<<
         <<"id", old.rowid>>, <<"title", old.title>>,
         <<"completed", old.completed>>, <<"created_at", old.created_at>>,
         <<"updated_at", old.updated_at>> >>),
     timestamp |-> now]

\* The DBChange checkChanges hands to handleChange for a row of the batch.
ToDBChange(row) ==
    [table |-> row.table_name, operation |-> row.operation, rowId |-> row.row_id,
     timestamp |-> row.timestamp, changes |-> JsonParse(row.changed_data)]

watcherVars == <<clock, initialized, nextId, changeLog, triggers, watchers, intervalId,
                 errorHandlers, captured, evicted, lastFilter>>

\* INSERT INTO <table> of the row new, the insert trigger firing.
InsertRow(table, new) ==
    /\ table \in triggers
    /\ mutation' = [table |-> table, op |-> "INSERT", new |-> new]
    /\ payloadRow' = InsertTrigger(table, new, clock)
    /\ delivered' = NoChange
    /\ UNCHANGED <<watcherVars, tickVars, lifeVars, timers>>

\* UPDATE <table> turning the row old into the row new, the update trigger
\* firing; the statement may assign the rowid.
UpdateRow(table, old, new) ==
    /\ table \in triggers
    /\ mutation' = [table |-> table, op |-> "UPDATE", old |-> old, new |-> new]
    /\ payloadRow' = UpdateTrigger(table, old, new, clock)
    /\ delivered' = NoChange
    /\ UNCHANGED <<watcherVars, tickVars, lifeVars, timers>>

\* DELETE FROM <table> of the row old, the delete trigger firing.
DeleteRow(table, old) ==
    /\ table \in triggers
    /\ mutation' = [table |-> table, op |-> "DELETE", old |-> old]
    /\ payloadRow' = DeleteTrigger(table, old, clock)
    /\ delivered' = NoChange
    /\ UNCHANGED <<watcherVars, tickVars, lifeVars, timers>>

\* checkChanges reads the row and builds the DBChange of its table's watcher.
DeliverChange ==
    /\ payloadRow.operation # "none"
    /\ delivered.operation = "none"
    /\ payloadRow.table_name \in DOMAIN watchers
    /\ delivered' = ToDBChange(payloadRow)
    /\ UNCHANGED <<mutation, payloadRow>>
    /\ UNCHANGED <<watcherVars, tickVars, lifeVars, timers>>

\* ---------------------------------------------------------- specification

\* new SQLiteWatcher(config) on a database without watcher objects.
Init ==
    /\ clock = 0
    /\ initialized = FALSE
    /\ nextId = 1
    /\ changeLog = {}
    /\ triggers = {}
    /\ watchers = <<>>
    /\ intervalId = "null"
    /\ errorHandlers = {}
    /\ ticks = [k \in TickIds |-> IdleTick]
    /\ running = {}
    /\ fired = <<>>
    /\ captured = {}
    /\ evicted = {}
    /\ handled = {}
    /\ rejected = {}
    /\ skipped = {}
    /\ failed = {}
    /\ raised = [storage |-> 0, callback |-> 0]
    /\ reported = [h \in Handlers |-> 0]
    /\ storageFailures = <<>>
    /\ lastFilter = [t \in Tables |-> "none"]
    /\ dbOpen = TRUE
    /\ watcherObjects = {}
    /\ timers = 0
    /\ rewatched = {}
    /\ watchErrors = {}
    /\ lastCleanup = "none"
    /\ inFlightAtCleanup = {}
    /\ mutation = NoStatement
    /\ payloadRow = NoRow
    /\ delivered = NoChange

\* The application registers its listeners and error handlers before the
\* first change is captured.
Setup == nextId = 1

Next ==
    \/ \E t \in Tables : t \notin DOMAIN watchers /\ Watch(t)
    \/ \E t \in Tables : Unwatch(t)
    \/ \E t \in Tables, e \in Events, c \in Callbacks : Setup /\ On(t, e, c)
    \/ \E t \in Tables, p \in Predicates : Filter(t, p)
    \/ Start
    \/ Stop
    \/ \E h \in Handlers : Setup /\ OnError(h)
    \/ \E t \in Tables, o \in Operations : nextId <= MaxChanges /\ Mutate(t, o)
    \/ \E f \in StorageFailures : CheckChanges(f)
    \/ CallbackResolve
    \/ CallbackReject

Spec == Init /\ [][Next]_vars

\* Traffic: the application watches, registers an onInsert listener whose
\* promise always resolves and starts; changes are then captured and drained
\* while seconds pass.
NextRetention ==
    \/ \E t \in Tables : Setup /\ t \notin DOMAIN watchers /\ Watch(t)
    \/ \E t \in Tables : Setup /\ On(t, "INSERT", "slow")
    \/ Start
    \/ \E t \in Tables, o \in Operations : nextId <= MaxRetentionChanges /\ Mutate(t, o)
    \/ AdvanceClock
    \/ CheckChanges("none")
    \/ CallbackResolve

SpecRetention == Init /\ [][NextRetention]_vars

\* Lifecycle: tables, one of them missing, are watched, re-watched and
\* unwatched, the timer is started and stopped and the watcher is cleaned up
\* while changes are captured and drained.
NextLifecycle ==
    \/ \E t \in Tables \cup MissingTables : Watch(t)
    \/ \E t \in Tables : Unwatch(t)
    \/ \E t \in Tables : Setup /\ On(t, Wildcard, "slow")
    \/ Start
    \/ Stop
    \/ \E removeTable \in BOOLEAN : Cleanup(removeTable)
    \/ \E t \in Tables, o \in Operations : nextId <= MaxLifecycleChanges /\ Mutate(t, o)
    \/ CheckChanges("none")
    \/ CallbackResolve

SpecLifecycle == Init /\ [][NextLifecycle]_vars

\* Payload: statements with their row images are applied to a watched table
\* and the change each one leaves is delivered.
NextPayload ==
    \/ \E t \in Tables : t \notin DOMAIN watchers /\ Watch(t)
    \/ \E t \in Tables, new \in Images : InsertRow(t, new)
    \/ \E t \in Tables, old \in Images, new \in Images : UpdateRow(t, old, new)
    \/ \E t \in Tables, old \in Images : DeleteRow(t, old)
    \/ DeliverChange

SpecPayload == Init /\ [][NextPayload]_vars

\* Wall clock: changes are captured and drained while the clock advances and
\* is set back.
NextClock ==
    \/ \E t \in Tables : Setup /\ t \notin DOMAIN watchers /\ Watch(t)
    \/ Start
    \/ \E t \in Tables, o \in Operations : nextId <= MaxClockChanges /\ Mutate(t, o)
    \/ AdvanceClock
    \/ ClockStepsBack
    \/ CheckChanges("none")

SpecClock == Init /\ [][NextClock]_vars

\* Progress: the application watches, registers its listeners, starts and
\* stops; changes are captured and drained.
NextLive ==
    \/ \E t \in Tables : Setup /\ t \notin DOMAIN watchers /\ Watch(t)
    \/ \E t \in Tables, e \in Events, c \in Callbacks : Setup /\ On(t, e, c)
    \/ Start
    \/ Stop
    \/ \E t \in Tables, o \in Operations : nextId <= MaxLiveChanges /\ Mutate(t, o)
    \/ CheckChanges("none")
    \/ CallbackResolve
    \/ CallbackReject

\* setInterval keeps calling checkChanges while the interval is set, and the
\* promise of every callback settles.
Fairness ==
    /\ WF_vars(CheckChanges("none"))
    /\ WF_vars(CallbackResolve \/ CallbackReject)

SpecLive == Init /\ [][NextLive]_vars /\ Fairness

\* ------------------------------------------------------------- properties

LogIds == {r.id : r \in changeLog}
FiredIds == {fired[n].id : n \in DOMAIN fired}
Draining == {k \in TickIds : ticks[k].pc # "idle"}
\* Changes of a batch in flight that the for loop has not reached.
InFlightIds ==
    UNION {{ticks[k].batch[j].id : j \in (ticks[k].i + 1)..Len(ticks[k].batch)} : k \in Draining}
Times(inv) == Cardinality({n \in DOMAIN fired : fired[n] = inv})
TotalRaised == raised.storage + raised.callback

\* The table of the change is watched without a filter, with listeners of the
\* change's operation. Listeners are registered during Setup only, so this
\* has held since the change was captured.
Subscribed(row) ==
    /\ row.table_name \in DOMAIN watchers
    /\ watchers[row.table_name].filter = "none"
    /\ lastFilter[row.table_name] = "none"
    /\ watchers[row.table_name].events[row.operation] # <<>>

\* C1: every mutation of a watched table that was not evicted and has left the
\* change log has fired each per-operation callback of its operation exactly
\* once, every per-operation callback fired belongs to a captured mutation of
\* that operation, and the per-operation callbacks start in increasing
\* sequenceId order across all ticks. Stated for the runs in which no callback
\* and no statement has failed.
C1_ExactlyOnceInSequenceOrder ==
    TotalRaised = 0 =>
    /\ \A row \in captured :
         (Subscribed(row) /\ row.id \notin (LogIds \cup evicted \cup InFlightIds))
         => \A cb \in Range(watchers[row.table_name].events[row.operation]) :
                Times([id |-> row.id, event |-> row.operation, callback |-> cb]) = 1
    /\ \A n \in DOMAIN fired :
         fired[n].event # Wildcard
         => [id |-> fired[n].id, table_name |-> "users", operation |-> fired[n].event]
                \in captured
    /\ \A m, n \in DOMAIN fired :
         (m < n /\ fired[m].event # Wildcard /\ fired[n].event # Wildcard)
         => fired[m].id <= fired[n].id

\* C2: a captured change that was not evicted is in the change log or has
\* been handed to dispatch (passed to handleChange, or passed over for want
\* of a TableWatcher): the DELETE of a batch follows its dispatch.
C2_DeleteFollowsDispatch ==
    \A row \in captured :
        row.id \notin evicted => row.id \in (LogIds \cup handled \cup skipped)

\* C3: at most one checkChanges of the instance is in flight.
C3_SingleFlight == Cardinality(Draining) <= 1

RowOf(id) == CHOOSE row \in captured : row.id = id
BatchIds(k) == {ticks[k].batch[j].id : j \in DOMAIN ticks[k].batch}
\* Changes some tick has read: dispatched, passed over, waiting in a batch in
\* flight, or left behind by a batch that ended in the catch block.
ReadIds == handled \cup skipped \cup InFlightIds \cup UNION {f.later : f \in failed}

\* C4: once the tick of a change whose callback threw or rejected has ended,
\* the failure has been reported to every onError handler, every listener of
\* the change's operation and every wildcard listener of its table has been
\* invoked for it, every later change of the batch has been dispatched, and
\* the changes of the batch are out of the change log.
C4_CallbackFailureIsolated ==
    \A f \in failed :
        (\A k \in Draining : f.id \notin BatchIds(k)) =>
            /\ \A h \in errorHandlers : reported[h] >= 1
            /\ LET row == RowOf(f.id)
               IN row.table_name \in DOMAIN watchers =>
                    \A e \in {row.operation, Wildcard} :
                        \A cb \in Range(watchers[row.table_name].events[e]) :
                            Times([id |-> row.id, event |-> e, callback |-> cb]) = 1
            /\ f.later \subseteq (handled \cup skipped)
            /\ ({f.id} \cup f.later) \cap LogIds = {}

\* C5: a step in which checkChanges catches an error (a failed statement, a
\* callback that threw or rejected) leaves the timer as it was, calls every
\* registered onError handler once and no other, leaves the registry, the
\* triggers and the handlers alone, and leaves no more ticks in flight than
\* before; with no handler registered nobody is called.
C5_ErrorsNeverStopLoop ==
    [][TotalRaised' > TotalRaised =>
          /\ TotalRaised' = TotalRaised + 1
          /\ intervalId' = intervalId
          /\ \A h \in Handlers :
                reported'[h] = reported[h] + (IF h \in errorHandlers THEN 1 ELSE 0)
          /\ UNCHANGED <<initialized, triggers, watchers, errorHandlers, nextId, clock>>
          /\ Cardinality(Draining') <= Cardinality(Draining)]_vars

\* A failed statement and a failed callback were both reported to the two
\* handlers, the timer is active and a later tick is draining.
C5_Witness ==
    /\ raised.storage > 0
    /\ raised.callback > 0
    /\ errorHandlers = Handlers
    /\ \A h \in Handlers : reported[h] = TotalRaised
    /\ intervalId = "timer"
    /\ Draining # {}

\* C6: a step in which the SELECT or the DELETE of checkChanges fails leaves
\* the change log as it was, dispatches nothing and starts no callback; and
\* every row that was in the change log at a failure is still there, or was
\* evicted, or has been read by a later tick.
C6_StorageFailureKeepsLog ==
    /\ [](\A n \in DOMAIN storageFailures :
            storageFailures[n].pending \subseteq (LogIds \cup evicted \cup ReadIds))
    /\ [][raised'.storage > raised.storage =>
            /\ changeLog' = changeLog
            /\ SelectChanges(changeLog', MaxChangesPerBatch)
                 = SelectChanges(changeLog, MaxChangesPerBatch)
            /\ UNCHANGED <<ticks, running, fired, handled, rejected, skipped, failed>>]_vars

\* The DELETE of a batch failed and the rows of the change log at that time
\* were delivered by a later tick.
C6_Witness ==
    \E n \in DOMAIN storageFailures :
        /\ storageFailures[n].statement = "delete"
        /\ storageFailures[n].pending # {}
        /\ storageFailures[n].pending \subseteq FiredIds

\* C7: the change log never holds more than bufferSize rows; an append
\* removes only rows older (by id) than every row it retains; and with the
\* drain never started and no row aged out, once more than bufferSize rows
\* have been appended the change log holds exactly the bufferSize latest.
C7_BufferBound ==
    /\ [](/\ Cardinality(changeLog) <= BufferSize
          /\ (intervalId = "null" /\ clock <= RetentionSeconds /\ nextId > BufferSize + 1)
                => LogIds = (nextId - BufferSize)..(nextId - 1))
    /\ [][nextId' > nextId =>
            \A e \in evicted' \ evicted : \A r \in changeLog' : e < r.id]_vars

\* bufferSize + 1 changes were appended with the drain never started: the
\* first one was evicted and bufferSize rows remain.
C7_Witness ==
    /\ intervalId = "null"
    /\ clock = 0
    /\ nextId = BufferSize + 2
    /\ evicted = {1}
    /\ Cardinality(changeLog) = BufferSize

\* C8 as claimed: no row a tick reads into its batch is older than
\* retentionSeconds at the time of the read.
C8_NoAgedRowInBatch ==
    [][(nextId' = nextId /\ changeLog' # changeLog) =>
          LET batch == SelectChanges(changeLog, MaxChangesPerBatch)
          IN \A j \in DOMAIN batch : batch[j].timestamp >= clock - RetentionSeconds]_vars

\* C8, amended: after every append no row of the change log is older than
\* retentionSeconds at the time of the append, so a row that had aged out when
\* a later change was appended is in no batch read after that append.
C8_AppendRemovesAgedRows ==
    [][nextId' > nextId =>
          \A r \in changeLog' : r.timestamp >= clock' - RetentionSeconds]_vars

\* An append removed a row for its age: too few rows were appended for the
\* count bound to apply.
C8_Witness ==
    /\ evicted # {}
    /\ nextId <= BufferSize + 1
    /\ \A r \in changeLog : r.timestamp >= clock - RetentionSeconds

\* C9: a change the filter rejected has started no callback and is out of the
\* change log; the filter of a TableWatcher is the predicate of the last
\* filter() call; and a change passed to handleChange is rejected exactly
\* when that predicate does not accept it.
C9_FilterRejects ==
    /\ [](/\ rejected \cap FiredIds = {}
          /\ rejected \cap LogIds = {}
          /\ \A t \in DOMAIN watchers : watchers[t].filter = lastFilter[t])
    /\ [][\A id \in handled' \ handled :
            id \in rejected' <=> ~Accepts(lastFilter[RowOf(id).table_name], RowOf(id))]_vars

\* An INSERT was rejected under one predicate, the predicate was replaced by
\* insertsOnly, and a later change was delivered.
C9_Witness ==
    /\ lastFilter["users"] = "insertsOnly"
    /\ \E r \in rejected, f \in FiredIds : r < f /\ RowOf(r).operation = "INSERT"

\* C10: the capture triggers exist for watched tables only; a change passed
\* over for want of a TableWatcher has started no callback and is in no
\* failure; and a tick that reads rows of an unwatched table passes them
\* over, removes them from the change log, starts no callback for them and,
\* when the batch holds nothing else, reports no error.
C10_UnwatchStopsDelivery ==
    /\ [](/\ triggers \subseteq DOMAIN watchers
          /\ skipped \cap FiredIds = {}
          /\ skipped \cap {f.id : f \in failed} = {})
    /\ [][(nextId' = nextId /\ changeLog' # changeLog) =>
            LET batch == SelectChanges(changeLog, MaxChangesPerBatch)
                stale == {batch[j].id : j \in {i \in DOMAIN batch :
                                                 batch[i].table_name \notin DOMAIN watchers}}
            IN /\ stale \subseteq skipped'
               /\ stale \cap LogIds' = {}
               /\ stale \cap FiredIds' = {}
               /\ stale = {batch[j].id : j \in DOMAIN batch}
                    => UNCHANGED <<fired, running, ticks, raised, reported>>]_vars

\* A change was delivered, the table was unwatched with a later change still
\* in the change log, and a tick passed that one over without an error.
C10_Witness ==
    /\ "users" \notin DOMAIN watchers
    /\ triggers = {}
    /\ skipped # {}
    /\ FiredIds # {}
    /\ LogIds = {}
    /\ TotalRaised = 0

\* C11: a change waiting in the batch of a tick that is suspended on the
\* listeners of an operation is not passed over when it has that operation:
\* it was read while its table was watched with those listeners, and is
\* delivered to them whether or not the table is unwatched meanwhile.
C11_UnwatchKeepsInFlight ==
    [][\A k \in TickIds :
          ticks[k].pc = "op" =>
              \A j \in (ticks[k].i + 1)..Len(ticks[k].batch) :
                  ticks[k].batch[j].operation = ticks[k].batch[ticks[k].i].operation
                      => ticks[k].batch[j].id \notin skipped']_vars

\* C12: watch() for a watched table leaves its TableWatcher, with its
\* listeners, and the triggers as they are; the tables with capture triggers
\* are exactly the watched ones; and a mutation appends exactly one change.
C12_WatchIdempotent ==
    /\ [](triggers = DOMAIN watchers)
    /\ [][/\ rewatched' # rewatched
             => UNCHANGED <<watchers, triggers, lastFilter, changeLog, ticks>>
          /\ nextId' # nextId
             => /\ nextId' = nextId + 1
                /\ Cardinality(captured') = Cardinality(captured) + 1
                /\ nextId \in {r.id : r \in changeLog'}]_vars

\* watch() was called again for a watched table that has a listener, and the
\* mutations made since were captured once each.
C12_Witness ==
    /\ "users" \in rewatched
    /\ "users" \in DOMAIN watchers
    /\ ListenerCount(watchers["users"]) > 0
    /\ nextId = MaxLifecycleChanges + 1
    /\ Cardinality(captured) = MaxLifecycleChanges

\* C13: a cleanup() on an open handle leaves no capture trigger of a watched
\* table, an empty registry and no timer; cleanup(false) leaves the change
\* log table, its rows and the cleanup trigger as they are, cleanup(true)
\* leaves neither the table nor the trigger.
C13_CleanupFrame ==
    [][(dbOpen /\ ~dbOpen') =>
          /\ triggers' \cap DOMAIN watchers = {}
          /\ watchers' = <<>>
          /\ intervalId' = "null"
          /\ timers' = 0
          /\ lastCleanup' \in {"false", "true"}
          /\ lastCleanup' = "false" => UNCHANGED <<watcherObjects, changeLog>>
          /\ lastCleanup' = "true" => (watcherObjects' = {} /\ changeLog' = {})]_vars

\* cleanup(false) was called with a table watched, the timer running and
\* rows in the change log: the rows and the watcher objects are still there.
C13_Witness ==
    /\ lastCleanup = "false"
    /\ ~dbOpen
    /\ changeLog # {}
    /\ watcherObjects = {"changes_table", "cleanup_trigger"}
    /\ watchers = <<>>
    /\ triggers = {}
    /\ timers = 0
    /\ fired # <<>>

\* C14: a table that does not exist is never in the registry and never has
\* capture triggers, and the watch() that throws for it leaves the registry,
\* the triggers, the timer and the ticks as they are.
C14_MissingTableNotWatched ==
    /\ [](MissingTables \cap (DOMAIN watchers \cup triggers) = {})
    /\ [][watchErrors' # watchErrors
            => UNCHANGED <<watchers, triggers, lastFilter, intervalId, timers, ticks,
                           changeLog>>]_vars

\* watch() threw for the missing table while another table is watched with
\* its triggers and its listener.
C14_Witness ==
    /\ "ghost" \in watchErrors
    /\ "users" \in DOMAIN watchers
    /\ "users" \in triggers
    /\ ListenerCount(watchers["users"]) > 0

\* C15: no change that was waiting in the batch of a tick in flight when
\* cleanup() was called is passed over: the tick dispatches its batch before
\* the registry is cleared.
C15_CleanupAwaitsTick == inFlightAtCleanup \cap skipped = {}

\* C16: at most one interval is set, and it is the one the watcher holds; a
\* tick begins only while the watcher holds a timer; and a step that clears
\* the timer leaves the ticks in flight and their callbacks where they are.
C16_OneTimer ==
    /\ [](/\ timers <= 1
          /\ timers = 1 <=> intervalId = "timer")
    /\ [][/\ (\/ \E k \in TickIds : ticks[k].pc = "idle" /\ ticks'[k].pc # "idle"
              \/ raised'.storage > raised.storage
              \/ (changeLog' # changeLog /\ nextId' = nextId /\ dbOpen' = dbOpen))
             => intervalId = "timer"
          /\ (intervalId = "timer" /\ intervalId' = "null")
             => /\ running' = running
                /\ fired' = fired
                /\ \A k \in TickIds : /\ ticks'[k].pc = ticks[k].pc
                                      /\ ticks'[k].batch = ticks[k].batch
                                      /\ ticks'[k].i = ticks[k].i
                                      /\ ticks'[k].await = ticks[k].await]_vars

\* The timer was stopped while a tick was suspended on a callback.
C16_Witness ==
    /\ intervalId = "null"
    /\ timers = 0
    /\ dbOpen
    /\ Draining # {}
    /\ running # {}

\* The row image a delivered change is to be taken from.
ImageOf(m) == IF m.op = "DELETE" THEN m.old ELSE m.new

\* C17: a delivered change carries the table and the operation of its
\* statement, and the row identifier and the column values of the new image
\* for INSERT and UPDATE, of the old image for DELETE.
C17_PayloadFromImage ==
    delivered.operation # "none" =>
        /\ delivered.table = mutation.table
        /\ delivered.operation = mutation.op
        /\ delivered.rowId = ImageOf(mutation).rowid
        /\ delivered.changes["id"] = ImageOf(mutation).rowid
        /\ \A c \in {"title", "completed", "created_at", "updated_at"} :
               delivered.changes[c] = ImageOf(mutation)[c]

\* The change is the one a tick in flight is dispatching.
Dispatching(id) ==
    \E k \in Draining : ticks[k].i \in DOMAIN ticks[k].batch /\ ticks[k].batch[ticks[k].i].id = id

\* C18: every callback invocation is for a change that was passed to
\* handleChange and accepted by the filter, on the change's operation or the
\* wildcard, and happens once; and once the dispatch of such a change is
\* over, every listener of its operation and every wildcard listener of its
\* table has been invoked for it once.
C18_ExactlyMatchingCallbacks ==
    /\ \A n \in DOMAIN fired :
          /\ fired[n].id \in handled \ rejected
          /\ fired[n].event \in {RowOf(fired[n].id).operation, Wildcard}
          /\ Times(fired[n]) = 1
    /\ \A id \in handled \ rejected :
          (~Dispatching(id) /\ RowOf(id).table_name \in DOMAIN watchers) =>
              \A e \in {RowOf(id).operation, Wildcard} :
                  \A cb \in Range(watchers[RowOf(id).table_name].events[e]) :
                      Times([id |-> id, event |-> e, callback |-> cb]) = 1

\* C19: a step that starts a callback for a change leaves no callback of
\* another change running.
C19_SequentialRecords ==
    [][\A n \in (Len(fired) + 1)..Len(fired') :
          \A inv \in running' : inv.id = fired'[n].id]_vars

\* The ids of the up-to-limit rows of the change log with the smallest ids.
LowestIds(log, limit) ==
    {r.id : r \in {x \in log : Cardinality({y \in log : y.id < x.id}) < limit}}

\* C20: a tick that finds rows in the change log reads the up-to-
\* maxChangesPerBatch rows with the smallest ids and deletes exactly the rows
\* it read, whatever the timestamps of the rows.
C20_DeleteEqualsBatch ==
    [][(nextId' = nextId /\ changeLog' # changeLog) =>
          LET batch == SelectChanges(changeLog, MaxChangesPerBatch)
              read == {batch[j].id : j \in DOMAIN batch}
          IN /\ read = LowestIds(changeLog, MaxChangesPerBatch)
             /\ LogIds \ LogIds' = read]_vars

\* A step of checkChanges: a tick starts, resumes or ends.
DrainStep ==
    \/ <<running, fired, handled, rejected, skipped, failed, raised, reported,
          storageFailures>>' # <<running, fired, handled, rejected, skipped, failed,
                                 raised, reported, storageFailures>>
    \/ (changeLog' # changeLog /\ nextId' = nextId /\ dbOpen' = dbOpen)

\* C22: a table is in the registry (isWatching, watchedTables) exactly when
\* its capture triggers are installed, and a step of checkChanges leaves the
\* registry, the installed triggers and the timer as they were.
C22_RegistryMatchesTriggers ==
    /\ [](\A t \in Tables \cup MissingTables : t \in DOMAIN watchers <=> t \in triggers)
    /\ [][DrainStep => UNCHANGED <<watchers, triggers, intervalId, timers>>]_vars

\* A change was delivered, the table was unwatched and a tick passed a later
\* change over, and the table is watched again with its triggers installed
\* and the timer running.
C22_Witness ==
    /\ "users" \in DOMAIN watchers
    /\ "users" \in triggers
    /\ handled # {}
    /\ skipped # {}
    /\ intervalId = "timer"

\* When the watcher stays started, the change log eventually stays empty with
\* no tick in flight and no callback running.
EventuallyDrained ==
    <>[](intervalId = "timer") => <>[](changeLog = {} /\ Draining = {} /\ running = {})

\* Every change of a watched table that has left the change log by a tick
\* whose dispatch of it is over has started every listener of its operation
\* and every wildcard listener of its table.
DrainedWasDelivered ==
    \A row \in captured :
        (/\ row.id \notin (LogIds \cup evicted \cup InFlightIds)
         /\ ~Dispatching(row.id)
         /\ row.table_name \in DOMAIN watchers) =>
            \A e \in {row.operation, Wildcard} :
                \A cb \in Range(watchers[row.table_name].events[e]) :
                    Times([id |-> row.id, event |-> e, callback |-> cb]) >= 1

\* C21: while the watcher stays started every change leaves the change log,
\* every callback completes and the change log stays empty once the changes
\* stop; and every drained change of a watched table had its matching
\* callbacks invoked.
C21_DrainedAndDelivered == EventuallyDrained /\ []DrainedWasDelivered

====
